---- MODULE Spec2Model ----
(***************************************************************************)
(* The staged trainer of pymatgen/io/abinitio/pseudo_dojo.py: the Dojo     *)
(* coordinator, the DojoMaster validators (HintsMaster, DeltaFactorMaster  *)
(* and one further subclass standing for any user-defined validator) and   *)
(* the pseudopotential they train.                                         *)
(***************************************************************************)
EXTENDS Integers, Sequences, FiniteSets, TLC

VARIABLES
    subclasses,      \* DojoMaster.__subclasses__(), in definition order
    max_level,       \* the max_level given to Dojo.__init__ (None or <<m>>)
    master_classes,  \* Dojo.master_classes
    masters,         \* the master instances of the current challenge_pseudo run
    pc,              \* position of the caller's thread
    idx,             \* position of the loop "for master in masters" (1-based)
    runs,            \* number of challenge_pseudo calls made so far
    pseudo_level,    \* pseudo.dojo_level (None or <<n>>)
    pseudo_report,   \* the report persisted on the pseudo (a dict)
    results,         \* start_training's local "results"
    rep,             \* start_training's locals "report, isok" (None before make_report)
    erange,          \* HintsMaster.challenge's local "erange"
    files,           \* the files written below the working directory (path -> content)
    exc,             \* the exception that left challenge_pseudo ("none" when there is none)
    call             \* the last operation executed, with its inputs and outcome

vars == <<subclasses, max_level, master_classes, masters, pc, idx, runs,
          pseudo_level, pseudo_report, results, rep, erange, files, exc, call>>

-----------------------------------------------------------------------------
(* Bounds of the model *)

\* validator levels, pseudo levels and cutoffs range over 0..MaxLevel
MaxLevel == 3
\* number of challenge_pseudo calls in one behaviour
MaxRuns == 2
\* number of direct calls of accept_pseudo on one master
MaxCalls == 2

-----------------------------------------------------------------------------
(* Python values *)

\* Python's None, and a value that is not None
None == <<>>
Some(v) == <<v>>

\* dicts are functions; {} is the function with the empty domain
EmptyDict == [k \in {} |-> 0]
DictPut(d, k, v) == [x \in DOMAIN d \cup {k} |-> IF x = k THEN v ELSE d[x]]
\* d.update(e)
DictUpdate(d, e) == [x \in DOMAIN d \cup DOMAIN e |-> IF x \in DOMAIN e THEN e[x] ELSE d[x]]
\* d without the keys in ks
DictDrop(d, ks) == [x \in DOMAIN d \ ks |-> d[x]]

Min(a, b) == IF a < b THEN a ELSE b
Max(a, b) == IF a > b THEN a ELSE b

\* s[:stop] of a Python list (a negative stop counts from the end)
PySliceTo(s, stop) ==
    LET n == IF stop < 0 THEN Max(Len(s) + stop, 0) ELSE Min(stop, Len(s))
    IN  SubSeq(s, 1, n)

\* list(np.arange(start, stop, 1)) on integers
PyArange(start, stop) ==
    IF stop > start THEN [i \in 1..(stop - start) |-> start + i - 1] ELSE <<>>

-----------------------------------------------------------------------------
(* The validator classes *)

HintsMaster == [name |-> "HintsMaster", dojo_level |-> 0, dojo_key |-> "hints"]
DeltaFactorMaster ==
    [name |-> "DeltaFactorMaster", dojo_level |-> 1, dojo_key |-> "delta_factor"]
\* any further subclass of DojoMaster, declaring level l
ExtraMaster(l) == [name |-> "ExtraMaster", dojo_level |-> l, dojo_key |-> "extra"]

\* what DojoMaster.__subclasses__() can return: the two classes of the module,
\* followed by at most one subclass defined elsewhere
Registries ==
    {<<HintsMaster, DeltaFactorMaster>>}
    \cup {<<HintsMaster, DeltaFactorMaster, ExtraMaster(l)>> : l \in 0..MaxLevel}

Levels(cs) == {cs[i].dojo_level : i \in DOMAIN cs}
DistinctLevels(cs) ==
    \A i, j \in DOMAIN cs : cs[i].dojo_level = cs[j].dojo_level => i = j

\* classes.sort(key = lambda cls : cls.dojo_level): a stable sort
RECURSIVE InsertByLevel(_, _)
InsertByLevel(s, c) ==
    IF s = <<>> THEN <<c>>
    ELSE IF c.dojo_level < Head(s).dojo_level THEN <<c>> \o s
    ELSE <<Head(s)>> \o InsertByLevel(Tail(s), c)

\* the classes left in the order of their definition
SortByLevel_unsorted(s) == s

RECURSIVE SortByLevel(_)
SortByLevel(s) ==
    IF s = <<>> THEN <<>>
    ELSE InsertByLevel(SortByLevel(SubSeq(s, 1, Len(s) - 1)), s[Len(s)])

\* Dojo.__init__: the value of self.master_classes
DojoMasterClasses(classes, cutoff) ==
    IF cutoff = None THEN SortByLevel(classes)
    ELSE PySliceTo(SortByLevel(classes), cutoff[1] + 1)

\* DojoMaster.subclass_from_dojo_level: a staticmethod that names "self" in
\* its raise statement, so the raise ends in a NameError
subclass_from_dojo_level(classes, dojo_level) ==
    LET found == SelectSeq(classes, LAMBDA c : c.dojo_level = dojo_level)
    IN  IF Len(found) # 1
        THEN [exc |-> "NameError", found |-> Len(found)]
        ELSE [exc |-> "none", found |-> Len(found), cls |-> found[1]]

-----------------------------------------------------------------------------
(* The data the collaborators hand in *)

\* the run modes a caller passes; "None" stands for a falsy runmode
RunModes == {"None", "parallel"}

PseudoLevels == {None} \cup {Some(n) : n \in 0..MaxLevel}
Cutoffs == {None} \cup {Some(m) : m \in 0..MaxLevel}

ReportKeys == {"hints", "delta_factor", "extra"}
\* a report fragment written by an earlier training, and one written by hand
OldFragment == [low |-> 10, normal |-> 10, high |-> 10]
NewFragment == [low |-> 11]
\* the fragment of a further subclass's report
ExtraFragment == [score |-> 1]

\* the reports a pseudo can carry when the program starts
InitialReports ==
    UNION {[K -> {OldFragment}] : K \in SUBSET ReportKeys}

\* Work.get_results() of the second convergence work: the three accuracies
\* with or without a further key, or one of the accuracies absent, or none
\* present; each sub-result is the ecut it recommends
ResultKeys == {"low", "normal", "high", "other"}
SubResult == [low |-> 20, normal |-> 30, high |-> 40, other |-> 50]
HintsResults ==
    {[k \in K |-> SubResult[k]] :
        K \in {ResultKeys, ResultKeys \ {"other"}, {}}
               \cup {ResultKeys \ {"other", k} : k \in {"low", "normal", "high"}}}
\* the ecut of "low" and of "high" in the results of the first work
Phase1Ecuts == {3, 5, 25}
\* the results of a further subclass's challenge
ExtraResults == {[score |-> 1]}

-----------------------------------------------------------------------------
(* Paths below the working directory "DOJO_" + pseudo.name *)

PseudoName == "Si"
WorkDir == "DOJO_" \o PseudoName
\* os.path.join(workdir, "LEVEL_" + str(self.dojo_level))
LevelDir(l) == WorkDir \o "/LEVEL_" \o ToString(l)
\* start_training: os.path.join(workdir, "report.json")
ReportJson == WorkDir \o "/report.json"
\* w.path_in_workdir("dojo_results.json") of a work built in LevelDir(l)
DojoResultsJson(l) == LevelDir(l) \o "/dojo_results.json"
\* the paths of the model that lie below LevelDir(l)
PathsBelow(l) == {DojoResultsJson(l)}

-----------------------------------------------------------------------------
(* DojoMaster *)

\* DojoMaster.__init__; "bound" says whether self.pseudo is set. nAccept and
\* nTrain count the calls of accept_pseudo and start_training on the instance,
\* "seen" is the level of the pseudo at the last call of accept_pseudo, and
\* "state" is the instance's place in its life: "idle", "accepted" once
\* accept_pseudo has bound a pseudo, "trained" once start_training has
\* returned, "failed" once it has raised.
NewMaster(cls, runmode) ==
    [cls |-> cls, runmode |-> runmode, bound |-> FALSE,
     reports |-> <<>>, errors |-> <<>>, nAccept |-> 0, nTrain |-> 0,
     seen |-> None, state |-> "idle"]

\* accept_pseudo comparing the pseudo's level with the master's own level
accept_pseudo_same_level(level, dojo_level) ==
    IF level = None THEN dojo_level = 0
    ELSE level[1] = dojo_level

\* accept_pseudo letting every master take a pseudo that has no level
accept_pseudo_untested_any(level, dojo_level) ==
    IF level = None THEN TRUE
    ELSE level[1] = dojo_level - 1

\* DojoMaster.accept_pseudo: the value of "ready"
accept_pseudo(level, dojo_level) ==
    IF level = None THEN dojo_level = 0
    ELSE level[1] = dojo_level - 1

\* write_dojo_report persisting the new report in place of the merged one
write_dojo_report_unmerged(bound, old_report, report, overwrite_data) ==
    IF ~bound
    THEN [exc |-> "AttributeError", persisted |-> old_report, written |-> FALSE]
    ELSE IF \E okey \in DOMAIN old_report : okey \in DOMAIN report
    THEN [exc |-> "NameError", persisted |-> old_report, written |-> FALSE]
    ELSE [exc |-> "none", persisted |-> report, written |-> TRUE]

\* write_dojo_report without the test of the old keys
write_dojo_report_unchecked(bound, old_report, report, overwrite_data) ==
    IF ~bound
    THEN [exc |-> "AttributeError", persisted |-> old_report, written |-> FALSE]
    ELSE [exc |-> "none", persisted |-> DictUpdate(old_report, report),
          written |-> TRUE]

\* DojoMaster.write_dojo_report on a master whose pseudo carries old_report.
\* Without a bound pseudo, "self.pseudo" is no attribute: an AttributeError.
\* The loop tests "okey in report and not overwrite"; "overwrite" is no name
\* of the scope, so the test ends in a NameError as soon as a key of the old
\* report is a key of the new one, whatever overwrite_data is.
write_dojo_report(bound, old_report, report, overwrite_data) ==
    IF ~bound
    THEN [exc |-> "AttributeError", persisted |-> old_report, written |-> FALSE]
    ELSE IF \E okey \in DOMAIN old_report : okey \in DOMAIN report
    THEN [exc |-> "NameError", persisted |-> old_report, written |-> FALSE]
    ELSE [exc |-> "none", persisted |-> DictUpdate(old_report, report),
          written |-> TRUE]

HintsKeys == <<"low", "normal", "high">>

\* make_report copying the keys it finds and passing over the others
HintsMakeReport_lenient(res) ==
    [exc |-> "none", isok |-> TRUE,
     report |-> [k \in {"hints"} |->
                   [x \in {HintsKeys[i] : i \in DOMAIN HintsKeys} \cap DOMAIN res
                      |-> res[x]]]]

\* make_report handing on the whole of the results
HintsMakeReport_keeps_all(res) ==
    LET missing == {i \in DOMAIN HintsKeys : HintsKeys[i] \notin DOMAIN res}
        first == CHOOSE i \in missing : \A j \in missing : i <= j
    IN  IF missing # {}
        THEN [exc |-> "KeyError", key |-> HintsKeys[first]]
        ELSE [exc |-> "none", isok |-> TRUE, report |-> [k \in {"hints"} |-> res]]

\* HintsMaster.make_report
HintsMakeReport(res) ==
    LET missing == {i \in DOMAIN HintsKeys : HintsKeys[i] \notin DOMAIN res}
        first == CHOOSE i \in missing : \A j \in missing : i <= j
    IN  IF missing # {}
        THEN [exc |-> "KeyError", key |-> HintsKeys[first]]
        ELSE [exc |-> "none", isok |-> TRUE,
              report |-> [k \in {HintsMaster.dojo_key} |->
                            [x \in {HintsKeys[i] : i \in DOMAIN HintsKeys} |-> res[x]]]]

\* DeltaFactorMaster.make_report
DeltaMakeReport(res) ==
    [exc |-> "none", isok |-> TRUE,
     report |-> [k \in {DeltaFactorMaster.dojo_key} |-> EmptyDict]]

\* make_report of a further subclass: the abstract method's contract,
\* "Returns report, isok", with a verdict the subclass decides
ExtraMakeReport(res, ok) ==
    [exc |-> "none", isok |-> ok,
     report |-> [k \in {"extra"} |-> ExtraFragment]]

-----------------------------------------------------------------------------
(* The initial state: a pseudo with any level and any earlier report, the
   subclasses defined, no Dojo constructed yet *)

Init ==
    /\ subclasses \in Registries
    /\ max_level = None
    /\ master_classes = <<>>
    /\ masters = <<>>
    /\ pc = "new"
    /\ idx = 0
    /\ runs = 0
    /\ pseudo_level \in PseudoLevels
    /\ pseudo_report \in InitialReports
    /\ results = EmptyDict
    /\ rep = None
    /\ erange = <<>>
    /\ files = EmptyDict
    /\ exc = "none"
    /\ call = [op |-> "none"]

\* the caller is not inside challenge_pseudo
AtRest == pc \in {"idle", "returned", "raised"}

-----------------------------------------------------------------------------
(* Dojo *)

\* Dojo.__init__(max_level=cutoff)
DojoInit(cutoff) ==
    /\ pc = "new"
    /\ max_level' = cutoff
    /\ master_classes' = DojoMasterClasses(subclasses, cutoff)
    /\ pc' = "idle"
    /\ call' = [op |-> "Dojo"]
    /\ UNCHANGED <<subclasses, masters, idx, runs, pseudo_level, pseudo_report,
                   results, rep, erange, files, exc>>

\* DojoMaster.subclass_from_dojo_level(dojo_level), called by the user
LookupSubclass(dojo_level) ==
    /\ pc \in {"new", "idle"}
    /\ LET r == subclass_from_dojo_level(subclasses, dojo_level)
       IN  /\ call' = [op |-> "subclass_from_dojo_level", dojo_level |-> dojo_level,
                       found |-> r.found, exc |-> r.exc]
    /\ UNCHANGED <<subclasses, max_level, master_classes, masters, pc, idx, runs,
                   pseudo_level, pseudo_report, results, rep, erange, files, exc>>

\* a loop that catches the exception and goes on with the next master
Raise_caught(e) ==
    /\ pc' = "accept"
    /\ exc' = e
    /\ idx' = idx + 1

\* a loop that asks the same master again after an exception
Raise_retry(e) ==
    /\ pc' = "challenge"
    /\ exc' = e
    /\ idx' = idx

\* an exception leaves start_training and challenge_pseudo: the loop of
\* challenge_pseudo has no try statement
Raise(e) ==
    /\ pc' = "raised"
    /\ exc' = e
    /\ idx' = idx

\* Dojo.challenge_pseudo(pseudo, runmode) up to the loop: the masters are
\* built. DojoMaster.__init__ evaluates RunMode.sequential() for a falsy
\* runmode, and the module imports no RunMode: a NameError.
ChallengePseudo(runmode) ==
    /\ AtRest
    /\ runs < MaxRuns
    /\ runs' = runs + 1
    /\ results' = EmptyDict
    /\ rep' = None
    /\ call' = [op |-> "challenge_pseudo", runmode |-> runmode]
    /\ IF runmode = "None" /\ master_classes # <<>>
       THEN /\ pc' = "raised"
            /\ exc' = "NameError"
            /\ idx' = 0
            /\ masters' = <<>>
       ELSE /\ pc' = "accept"
            /\ exc' = "none"
            /\ idx' = 1
            /\ masters' = [i \in DOMAIN master_classes |->
                             NewMaster(master_classes[i], runmode)]
    /\ UNCHANGED <<subclasses, max_level, master_classes, pseudo_level,
                   pseudo_report, erange, files>>

\* a loop that trains the pseudo whatever accept_pseudo returns
AcceptPseudo_trains_anyway ==
    /\ pc = "accept"
    /\ idx <= Len(masters)
    /\ LET me == masters[idx]
           ready == accept_pseudo(pseudo_level, me.cls.dojo_level)
       IN  /\ masters' = [masters EXCEPT ![idx].bound = (ready \/ @),
                                         ![idx].nAccept = @ + 1,
                                         ![idx].seen = pseudo_level,
                                         ![idx].state = IF ready THEN "accepted" ELSE @]
           /\ pc' = "challenge"
           /\ idx' = idx
           /\ call' = [op |-> "accept_pseudo", dojo_level |-> me.cls.dojo_level,
                       level |-> pseudo_level, ready |-> ready, idx |-> idx,
                       old |-> pseudo_report]
    /\ UNCHANGED <<subclasses, max_level, master_classes, runs, pseudo_level,
                   pseudo_report, results, rep, erange, files, exc>>

\* the loop's test "if master.accept_pseudo(pseudo)"
AcceptPseudo ==
    /\ pc = "accept"
    /\ idx <= Len(masters)
    /\ LET me == masters[idx]
           ready == accept_pseudo(pseudo_level, me.cls.dojo_level)
       IN  /\ masters' = [masters EXCEPT ![idx].bound = (ready \/ @),
                                         ![idx].nAccept = @ + 1,
                                         ![idx].seen = pseudo_level,
                                         ![idx].state = IF ready THEN "accepted" ELSE @]
           /\ pc' = IF ready THEN "challenge" ELSE "accept"
           /\ idx' = IF ready THEN idx ELSE idx + 1
           /\ call' = [op |-> "accept_pseudo", dojo_level |-> me.cls.dojo_level,
                       level |-> pseudo_level, ready |-> ready, idx |-> idx,
                       old |-> pseudo_report]
    /\ UNCHANGED <<subclasses, max_level, master_classes, runs, pseudo_level,
                   pseudo_report, results, rep, erange, files, exc>>

\* "return masters"
Return ==
    /\ pc = "accept"
    /\ idx > Len(masters)
    /\ pc' = "returned"
    /\ call' = [op |-> "return"]
    /\ UNCHANGED <<subclasses, max_level, master_classes, masters, idx, runs,
                   pseudo_level, pseudo_report, results, rep, erange, files, exc>>

-----------------------------------------------------------------------------
(* challenge *)

Training(name) ==
    /\ pc = "challenge"
    /\ masters[idx].cls.name = name
    /\ masters' = [masters EXCEPT ![idx].nTrain = @ + 1]

estep == 10
MinEcut == 5

\* HintsMaster.challenge up to the first w.wait(): the directory of the
\* work is removed if it exists, the work over eslice is started
HintsPhase1 ==
    /\ Training("HintsMaster")
    /\ files' = DictDrop(files, PathsBelow(masters[idx].cls.dojo_level))
    /\ pc' = "wait1"
    /\ call' = [op |-> "challenge", phase |-> 1]
    /\ UNCHANGED <<subclasses, max_level, master_classes, idx, runs, pseudo_level,
                   pseudo_report, results, rep, erange, exc>>

\* the range of the second scan without the least cutoff
Phase2Range_unclamped(low, high) == PyArange(low - estep, high + estep)

\* the range of the second scan, from the first work's results
Phase2Range(low, high) == PyArange(Max(low - estep, MinEcut), high + estep)

\* the first w.wait() returns: the results are read, the work is moved, the
\* second work is built over erange and started
HintsPhase2 ==
    /\ pc = "wait1"
    /\ \E low \in Phase1Ecuts, high \in Phase1Ecuts :
         /\ low <= high
         /\ erange' = Phase2Range(low, high)
         /\ call' = [op |-> "challenge", phase |-> 2, low |-> low, high |-> high]
    /\ pc' = "wait2"
    /\ UNCHANGED <<subclasses, max_level, master_classes, masters, idx, runs,
                   pseudo_level, pseudo_report, results, rep, files, exc>>

\* the second w.wait() returns: the results are read, dumped in
\* dojo_results.json and returned
HintsPhase2Done ==
    /\ pc = "wait2"
    /\ \E wres \in HintsResults :
         /\ results' = wres
         /\ files' = DictPut(files, DojoResultsJson(masters[idx].cls.dojo_level), wres)
    /\ erange' = <<>>
    /\ pc' = "make_report"
    /\ call' = [op |-> "challenge", phase |-> 3]
    /\ UNCHANGED <<subclasses, max_level, master_classes, masters, idx, runs,
                   pseudo_level, pseudo_report, rep, exc>>

\* DeltaFactorMaster.challenge: work_for_pseudo(workdir, runmode, ...) names
\* "runmode", which is no name of the scope: a NameError before any work is
\* built
DeltaChallenge ==
    /\ pc = "challenge"
    /\ masters[idx].cls.name = "DeltaFactorMaster"
    /\ masters' = [masters EXCEPT ![idx].nTrain = @ + 1, ![idx].state = "failed"]
    /\ Raise("NameError")
    /\ call' = [op |-> "challenge", phase |-> 0]
    /\ UNCHANGED <<subclasses, max_level, master_classes, runs, pseudo_level,
                   pseudo_report, results, rep, erange, files>>

\* challenge of a further subclass: returns some results
ExtraChallenge ==
    /\ Training("ExtraMaster")
    /\ \E wres \in ExtraResults : results' = wres
    /\ pc' = "make_report"
    /\ call' = [op |-> "challenge", phase |-> 0]
    /\ UNCHANGED <<subclasses, max_level, master_classes, idx, runs, pseudo_level,
                   pseudo_report, rep, erange, files, exc>>

-----------------------------------------------------------------------------
(* start_training after challenge *)

\* "report, isok = self.make_report(results, **kwargs)"
MakeReport ==
    /\ pc = "make_report"
    /\ \E ok \in BOOLEAN :
         LET name == masters[idx].cls.name
             r == CASE name = "HintsMaster" -> HintsMakeReport(results)
                    [] name = "DeltaFactorMaster" -> DeltaMakeReport(results)
                    [] OTHER -> ExtraMakeReport(results, ok)
         IN  /\ call' = [op |-> "make_report", name |-> name, results |-> results,
                         old |-> pseudo_report, out |-> r]
             /\ IF r.exc # "none"
                THEN /\ Raise(r.exc)
                     /\ rep' = rep
                     /\ masters' = [masters EXCEPT ![idx].state = "failed"]
                ELSE /\ rep' = Some([report |-> r.report, isok |-> r.isok])
                     /\ pc' = "dump"
                     /\ UNCHANGED <<idx, exc, masters>>
    /\ UNCHANGED <<subclasses, max_level, master_classes, runs,
                   pseudo_level, pseudo_report, results, erange, files>>

\* the dump made only under a true verdict
JsonDump_if_ok ==
    /\ pc = "dump"
    /\ files' = IF rep[1].isok THEN DictPut(files, ReportJson, results) ELSE files
    /\ pc' = "verdict"
    /\ call' = [op |-> "json_pretty_dump", path |-> ReportJson,
                dojo_level |-> masters[idx].cls.dojo_level]
    /\ UNCHANGED <<subclasses, max_level, master_classes, masters, idx, runs,
                   pseudo_level, pseudo_report, results, rep, erange, exc>>

\* json_pretty_dump(results, os.path.join(workdir, "report.json"))
JsonDump ==
    /\ pc = "dump"
    /\ files' = DictPut(files, ReportJson, results)
    /\ pc' = "verdict"
    /\ call' = [op |-> "json_pretty_dump", path |-> ReportJson,
                dojo_level |-> masters[idx].cls.dojo_level]
    /\ UNCHANGED <<subclasses, max_level, master_classes, masters, idx, runs,
                   pseudo_level, pseudo_report, results, rep, erange, exc>>

\* the report written before the verdict is looked at
Verdict_write_first ==
    /\ pc = "verdict"
    /\ LET isok == rep[1].isok
           w == write_dojo_report(masters[idx].bound, pseudo_report,
                                  rep[1].report, FALSE)
           e == IF isok THEN w.exc ELSE "DojoError"
       IN  /\ call' = [op |-> "start_training", isok |-> isok,
                       dojo_level |-> masters[idx].cls.dojo_level,
                       results |-> results, report |-> rep[1].report,
                       old |-> pseudo_report, exc |-> e,
                       written |-> w.written]
           /\ pseudo_report' = w.persisted
           /\ masters' = [masters EXCEPT ![idx].state =
                                          IF e # "none" THEN "failed" ELSE "trained"]
           /\ IF e # "none"
              THEN Raise(e)
              ELSE /\ pc' = "accept"
                   /\ idx' = idx + 1
                   /\ exc' = exc
    /\ UNCHANGED <<subclasses, max_level, master_classes, runs,
                   pseudo_level, results, rep, erange, files>>

\* "if isok: self.write_dojo_report(report) / else: raise self.Error(...)"
Verdict ==
    /\ pc = "verdict"
    /\ LET isok == rep[1].isok
           w == write_dojo_report(masters[idx].bound, pseudo_report,
                                  rep[1].report, FALSE)
           e == IF isok THEN w.exc ELSE "DojoError"
       IN  /\ call' = [op |-> "start_training", isok |-> isok,
                       dojo_level |-> masters[idx].cls.dojo_level,
                       results |-> results, report |-> rep[1].report,
                       old |-> pseudo_report, exc |-> e,
                       written |-> (isok /\ w.written)]
           /\ pseudo_report' = IF isok THEN w.persisted ELSE pseudo_report
           /\ masters' = [masters EXCEPT ![idx].state =
                                          IF e # "none" THEN "failed" ELSE "trained"]
           /\ IF e # "none"
              THEN Raise(e)
              ELSE /\ pc' = "accept"
                   /\ idx' = idx + 1
                   /\ exc' = exc
    /\ UNCHANGED <<subclasses, max_level, master_classes, runs,
                   pseudo_level, results, rep, erange, files>>

-----------------------------------------------------------------------------
(* The pseudo collaborator *)

\* the level of the pseudo is set outside this module: between two runs,
\* or in a run once a training has persisted its report
AdvanceLevel(n) ==
    /\ \/ pc \in {"returned", "raised"}
       \/ pc = "accept" /\ idx > 1 /\ masters[idx - 1].state = "trained"
    /\ pseudo_level # Some(n)
    /\ pseudo_level' = Some(n)
    /\ call' = [op |-> "advance"]
    /\ UNCHANGED <<subclasses, max_level, master_classes, masters, pc, idx, runs,
                   pseudo_report, results, rep, erange, files, exc>>

Next ==
    \/ \E cutoff \in Cutoffs : DojoInit(cutoff)
    \/ \E l \in 0..MaxLevel : LookupSubclass(l)
    \/ \E runmode \in RunModes : ChallengePseudo(runmode)
    \/ AcceptPseudo
    \/ Return
    \/ HintsPhase1
    \/ HintsPhase2
    \/ HintsPhase2Done
    \/ DeltaChallenge
    \/ ExtraChallenge
    \/ MakeReport
    \/ JsonDump
    \/ Verdict
    \/ \E n \in 0..MaxLevel : AdvanceLevel(n)

Spec == Init /\ [][Next]_vars

\* the steps of the thread that runs challenge_pseudo, outside w.wait()
ThreadStep ==
    \/ AcceptPseudo
    \/ Return
    \/ HintsPhase1
    \/ DeltaChallenge
    \/ ExtraChallenge
    \/ MakeReport
    \/ JsonDump
    \/ Verdict

\* a w.wait() of HintsMaster.challenge returns
WaitReturns ==
    \/ HintsPhase2
    \/ HintsPhase2Done

\* the thread goes on while it has a step, and every w.wait() returns
FairSpec == Spec /\ WF_vars(ThreadStep) /\ WF_vars(WaitReturns)

-----------------------------------------------------------------------------
(* write_dojo_report called directly on a master, with any report and any
   overwrite_data, against a pseudo that carries any earlier report *)

\* the reports a caller passes: one fragment under each key of any
\* non-empty set of keys
NewReports ==
    UNION {[K -> {NewFragment}] : K \in (SUBSET ReportKeys) \ {{}}}

InitWrite ==
    /\ subclasses = <<HintsMaster, DeltaFactorMaster>>
    /\ max_level = None
    /\ master_classes = DojoMasterClasses(subclasses, None)
    /\ \E i \in DOMAIN master_classes, b \in BOOLEAN :
         masters = <<[NewMaster(master_classes[i], "parallel") EXCEPT !.bound = b]>>
    /\ pc = "direct"
    /\ idx = 1
    /\ runs = 0
    /\ pseudo_level \in PseudoLevels
    /\ pseudo_report \in InitialReports
    /\ results = EmptyDict
    /\ rep = None
    /\ erange = <<>>
    /\ files = EmptyDict
    /\ exc = "none"
    /\ call = [op |-> "none"]

\* master.write_dojo_report(report, overwrite_data=overwrite_data)
CallWriteDojoReport(report, overwrite_data) ==
    /\ pc = "direct"
    /\ LET w == write_dojo_report(masters[idx].bound, pseudo_report, report,
                                  overwrite_data)
       IN  /\ pseudo_report' = w.persisted
           /\ call' = [op |-> "write_dojo_report", bound |-> masters[idx].bound,
                       old |-> pseudo_report, report |-> report,
                       overwrite_data |-> overwrite_data, exc |-> w.exc]
    /\ UNCHANGED <<subclasses, max_level, master_classes, masters, pc, idx, runs,
                   pseudo_level, results, rep, erange, files, exc>>

NextWrite ==
    \E report \in NewReports, overwrite_data \in BOOLEAN :
        CallWriteDojoReport(report, overwrite_data)

SpecWrite == InitWrite /\ [][NextWrite]_vars

-----------------------------------------------------------------------------
(* accept_pseudo called directly on a master of any class, again and again,
   against a pseudo whose level its collaborator may change in between *)

InitAccept ==
    /\ subclasses \in Registries
    /\ max_level = None
    /\ master_classes = DojoMasterClasses(subclasses, None)
    /\ \E i \in DOMAIN master_classes :
         masters = <<NewMaster(master_classes[i], "parallel")>>
    /\ pc = "direct"
    /\ idx = 1
    /\ runs = 0
    /\ pseudo_level \in PseudoLevels
    /\ pseudo_report \in InitialReports
    /\ results = EmptyDict
    /\ rep = None
    /\ erange = <<>>
    /\ files = EmptyDict
    /\ exc = "none"
    /\ call = [op |-> "none"]

\* accept_pseudo binding the pseudo before it looks at "ready"
CallAcceptPseudo_binds_always ==
    /\ pc = "direct"
    /\ masters[idx].nAccept < MaxCalls
    /\ LET me == masters[idx]
           ready == accept_pseudo(pseudo_level, me.cls.dojo_level)
           again == call.op = "accept_pseudo" /\ call.level = pseudo_level
       IN  /\ masters' = [masters EXCEPT ![idx].bound = TRUE,
                                         ![idx].nAccept = @ + 1,
                                         ![idx].seen = pseudo_level,
                                         ![idx].state = IF ready THEN "accepted" ELSE @]
           /\ call' = [op |-> "accept_pseudo", dojo_level |-> me.cls.dojo_level,
                       level |-> pseudo_level, ready |-> ready, idx |-> idx,
                       old |-> pseudo_report, before |-> me, again |-> again,
                       prev_ready |-> IF again THEN call.ready ELSE ready]
    /\ UNCHANGED <<subclasses, max_level, master_classes, pc, idx, runs,
                   pseudo_level, pseudo_report, results, rep, erange, files, exc>>

\* master.accept_pseudo(pseudo); "before" is the master as it was, "again"
\* says that the call before this one was accept_pseudo on the same pseudo
\* with the same level, and "prev_ready" is what that call returned
CallAcceptPseudo ==
    /\ pc = "direct"
    /\ masters[idx].nAccept < MaxCalls
    /\ LET me == masters[idx]
           ready == accept_pseudo(pseudo_level, me.cls.dojo_level)
           again == call.op = "accept_pseudo" /\ call.level = pseudo_level
       IN  /\ masters' = [masters EXCEPT ![idx].bound = (ready \/ @),
                                         ![idx].nAccept = @ + 1,
                                         ![idx].seen = pseudo_level,
                                         ![idx].state = IF ready THEN "accepted" ELSE @]
           /\ call' = [op |-> "accept_pseudo", dojo_level |-> me.cls.dojo_level,
                       level |-> pseudo_level, ready |-> ready, idx |-> idx,
                       old |-> pseudo_report, before |-> me, again |-> again,
                       prev_ready |-> IF again THEN call.ready ELSE ready]
    /\ UNCHANGED <<subclasses, max_level, master_classes, pc, idx, runs,
                   pseudo_level, pseudo_report, results, rep, erange, files, exc>>

\* the collaborator gives the pseudo another level between two calls
SetLevel(level) ==
    /\ pc = "direct"
    /\ pseudo_level # level
    /\ pseudo_level' = level
    /\ call' = [op |-> "advance"]
    /\ UNCHANGED <<subclasses, max_level, master_classes, masters, pc, idx, runs,
                   pseudo_report, results, rep, erange, files, exc>>

NextAccept ==
    \/ CallAcceptPseudo
    \/ \E level \in PseudoLevels : SetLevel(level)

SpecAccept == InitAccept /\ [][NextAccept]_vars

-----------------------------------------------------------------------------
(* Properties *)

\* C1: accept_pseudo returns true exactly when the pseudo has no level and
\* the master's level is 0, or the pseudo has a level and it is the master's
\* level minus one; the level-0 master rejects every pseudo that has a level.
C1_AcceptExactlyPreviousLevel ==
    call.op = "accept_pseudo" =>
        /\ call.ready <=>
             \/ (call.level = None /\ call.dojo_level = 0)
             \/ (call.level # None /\ call.level[1] = call.dojo_level - 1)
        /\ (call.dojo_level = 0 /\ call.level # None) => ~call.ready

\* a master above level 0 has accepted a pseudo of the level below its own
C1_Witness ==
    /\ call.op = "accept_pseudo"
    /\ call.dojo_level > 0
    /\ call.level = Some(call.dojo_level - 1)
    /\ call.ready
    /\ pc = "challenge"

\* write_dojo_report was called on a master with a pseudo, with a report
\* that has a key of the persisted report
WriteConflict ==
    /\ call.op = "write_dojo_report"
    /\ call.bound
    /\ DOMAIN call.old \cap DOMAIN call.report # {}

\* C2: write_dojo_report without overwrite permission, with a report that
\* has a key of the persisted report, fails with DojoError and leaves the
\* persisted report as it was.
C2_ConflictRaisesDojoError ==
    (WriteConflict /\ ~call.overwrite_data) =>
        /\ call.exc = "DojoError"
        /\ pseudo_report = call.old

\* C3: with overwrite_data=True, write_dojo_report with a report that has a
\* key of the persisted report succeeds; the persisted report then holds the
\* new value under the keys of the report and the old value elsewhere.
C3_OverwriteDataPermitsOverwrite ==
    (WriteConflict /\ call.overwrite_data) =>
        /\ call.exc = "none"
        /\ DOMAIN pseudo_report = DOMAIN call.old \cup DOMAIN call.report
        /\ \A k \in DOMAIN call.report : pseudo_report[k] = call.report[k]
        /\ \A k \in DOMAIN call.old \ DOMAIN call.report :
             pseudo_report[k] = call.old[k]

\* C4: write_dojo_report with a report that shares no key with the persisted
\* report succeeds, and the persisted report is then the union of the old
\* entries and the new ones.
C4_DisjointWriteIsUnion ==
    (/\ call.op = "write_dojo_report"
     /\ call.bound
     /\ DOMAIN call.old \cap DOMAIN call.report = {}) =>
        /\ call.exc = "none"
        /\ DOMAIN pseudo_report = DOMAIN call.old \cup DOMAIN call.report
        /\ \A k \in DOMAIN call.old : pseudo_report[k] = call.old[k]
        /\ \A k \in DOMAIN call.report : pseudo_report[k] = call.report[k]

\* a report of two keys was merged into a persisted report of one other key
C4_Witness ==
    /\ call.op = "write_dojo_report"
    /\ call.bound
    /\ Cardinality(DOMAIN call.old) = 1
    /\ Cardinality(DOMAIN call.report) = 2
    /\ DOMAIN call.old \cap DOMAIN call.report = {}
    /\ Cardinality(DOMAIN pseudo_report) = 3

\* start_training has written its report onto the pseudo: the write was
\* made, and the pseudo carries the old report updated with the new one
ReportPersisted ==
    /\ call.written
    /\ pseudo_report = DictUpdate(call.old, call.report)

\* C5 as stated: start_training persists the report iff the verdict is true;
\* under a false verdict it raises DojoError and the persisted report is
\* unchanged.
C5_PersistsIffVerdict ==
    call.op = "start_training" =>
        /\ ReportPersisted <=> call.isok
        /\ ~call.isok => (exc = "DojoError" /\ pseudo_report = call.old)

\* C5 amended: start_training persists the report iff the verdict is true
\* and no key of the report is already in the persisted report; under a true
\* verdict with such a key it raises and the persisted report is unchanged;
\* under a false verdict it raises DojoError and the persisted report is
\* unchanged.
C5_PersistsIffVerdictAndNoConflict ==
    call.op = "start_training" =>
        /\ ReportPersisted <=>
             (call.isok /\ DOMAIN call.old \cap DOMAIN call.report = {})
        /\ ReportPersisted => (exc = "none" /\ pc = "accept")
        /\ ~ReportPersisted =>
             (pc = "raised" /\ ~call.written /\ pseudo_report = call.old)
        /\ ~call.isok => exc = "DojoError"

\* a true verdict whose report was not persisted: the pseudo already had the key
C5_Witness ==
    /\ call.op = "start_training"
    /\ call.isok
    /\ DOMAIN call.old \cap DOMAIN call.report # {}
    /\ ~ReportPersisted
    /\ pc = "raised"

\* C6: when challenge has returned results and make_report a verdict,
\* report.json holds the results before the verdict is looked at, and still
\* does when start_training ends, under a true and under a false verdict.
C6_ResultsDumpedBeforeVerdict ==
    /\ pc = "verdict" =>
         (ReportJson \in DOMAIN files /\ files[ReportJson] = results)
    /\ call.op = "start_training" =>
         (ReportJson \in DOMAIN files /\ files[ReportJson] = call.results)

\* start_training ended on a false verdict and report.json holds the results
C6_Witness ==
    /\ call.op = "start_training"
    /\ ~call.isok
    /\ exc = "DojoError"
    /\ ReportJson \in DOMAIN files
    /\ files[ReportJson] = call.results

\* the keys HintsMaster.make_report reads
HintsKeySet == {"low", "normal", "high"}

\* C7: when the results of level 0 lack one of "low", "normal", "high",
\* HintsMaster.make_report raises a KeyError naming an absent key, the error
\* leaves start_training and challenge_pseudo, and no report is persisted.
C7_MissingKeyRaises ==
    (/\ call.op = "make_report"
     /\ call.name = "HintsMaster"
     /\ HintsKeySet \ DOMAIN call.results # {}) =>
        /\ call.out.exc = "KeyError"
        /\ call.out.key \in HintsKeySet \ DOMAIN call.results
        /\ pc = "raised"
        /\ exc = "KeyError"
        /\ rep = None
        /\ pseudo_report = call.old

\* the results had "low" and "high" but no "normal", and the error names "normal"
C7_Witness ==
    /\ call.op = "make_report"
    /\ call.name = "HintsMaster"
    /\ DOMAIN call.results = {"low", "high"}
    /\ call.out.exc = "KeyError"
    /\ call.out.key = "normal"
    /\ pc = "raised"

\* C8: once a training has raised in challenge_pseudo, the run is over with
\* that error: no master after the failing one, and so none of a higher
\* level, has had accept_pseudo or start_training called, and the list of
\* masters is not returned.
C8_RaiseEndsRun ==
    /\ exc # "none" =>
         /\ pc = "raised"
         /\ \A j \in DOMAIN masters :
              (j > idx \/ masters[j].cls.dojo_level > masters[idx].cls.dojo_level)
                 => (masters[j].nAccept = 0 /\ masters[j].nTrain = 0)
    /\ pc = "returned" => exc = "none"

\* a training raised while a master of a higher level was still to come
C8_Witness ==
    /\ pc = "raised"
    /\ exc # "none"
    /\ idx >= 1
    /\ idx < Len(masters)
    /\ masters[idx].nTrain = 1
    /\ masters[idx + 1].cls.dojo_level > masters[idx].cls.dojo_level
    /\ masters[idx + 1].nAccept = 0

\* C9: a Dojo cannot be constructed when two of the subclasses declare the
\* same level.
C9_DuplicateLevelsFailConstruction ==
    pc # "new" => (DistinctLevels(subclasses) /\ DistinctLevels(master_classes))

\* C10: with distinct levels, the Dojo keeps the classes whose level is at
\* most the cutoff, and all of them without a cutoff; the masters of a run
\* are instances of the classes kept.
C10_CutoffKeepsLevelsUpTo ==
    (pc # "new" /\ DistinctLevels(subclasses)) =>
        /\ {master_classes[i] : i \in DOMAIN master_classes} =
             {subclasses[i] : i \in
                {j \in DOMAIN subclasses :
                   max_level = None \/ subclasses[j].dojo_level <= max_level[1]}}
        /\ pc \in {"accept", "challenge", "returned"} =>
             /\ Len(masters) = Len(master_classes)
             /\ \A i \in DOMAIN masters : masters[i].cls = master_classes[i]

\* C11: challenge_pseudo visits the masters one after the other in ascending
\* order of level: when accept_pseudo has been called on a master, every
\* master of a lower level has had its own call and was either rejected or
\* has finished its training; at no time are two masters in training.
C11_SequentialAscending ==
    /\ \A i, j \in DOMAIN masters :
         i < j => masters[i].cls.dojo_level <= masters[j].cls.dojo_level
    /\ \A i, j \in DOMAIN masters :
         (masters[j].nAccept >= 1
            /\ masters[i].cls.dojo_level < masters[j].cls.dojo_level) =>
              /\ masters[i].nAccept = 1
              /\ \/ masters[i].state = "trained"
                 \/ (masters[i].state = "idle" /\ ~masters[i].bound
                       /\ masters[i].nTrain = 0)
    /\ Cardinality({j \in DOMAIN masters : masters[j].state = "accepted"}) <= 1
    /\ \A j \in DOMAIN masters :
         masters[j].state = "accepted" => (j = idx /\ ~AtRest)

\* the master of a higher level is asked after the first one has been trained
C11_Witness ==
    /\ Len(masters) >= 2
    /\ masters[1].state = "trained"
    /\ masters[2].nAccept = 1
    /\ masters[2].cls.dojo_level > masters[1].cls.dojo_level
    /\ masters[2].state = "accepted"

\* C12: in challenge_pseudo, start_training is called on a master if and only
\* if its accept_pseudo returned true; a rejected master is passed over
\* without an exception and without a change of the persisted report, and
\* the loop goes on with the next master.
C12_TrainIffAccepted ==
    /\ \A j \in DOMAIN masters :
         /\ masters[j].nTrain <= 1
         /\ masters[j].nTrain = 1 => (masters[j].bound /\ masters[j].nAccept = 1)
         /\ masters[j].bound =>
              (masters[j].nTrain = 1 \/ (j = idx /\ pc = "challenge"))
    /\ (call.op = "accept_pseudo" /\ ~call.ready) =>
         /\ pc = "accept"
         /\ idx = call.idx + 1
         /\ exc = "none"
         /\ pseudo_report = call.old
         /\ ~masters[call.idx].bound
         /\ masters[call.idx].nTrain = 0

\* the first master was rejected and the loop stands at the second one
C12_Witness ==
    /\ call.op = "accept_pseudo"
    /\ ~call.ready
    /\ call.idx = 1
    /\ idx = 2
    /\ pc = "accept"
    /\ Len(masters) >= 2

\* C13: accept_pseudo changes the master only by binding the pseudo when
\* it accepts: a rejected call returns false and leaves the bound pseudo
\* (none, or the one of an earlier accepted call), reports and errors as
\* they were; no call changes the level or the persisted report of the
\* pseudo; a call that follows a call on the same pseudo returns the same
\* value and leaves the master as the first call left it.
C13_AcceptOnlyBinds ==
    call.op = "accept_pseudo" =>
        LET me == masters[call.idx]
            was == call.before
        IN  /\ me.bound = (was.bound \/ call.ready)
            /\ me.reports = was.reports
            /\ me.errors = was.errors
            /\ me.runmode = was.runmode
            /\ me.cls = was.cls
            /\ ~call.ready => me.state = was.state
            /\ pseudo_level = call.level
            /\ pseudo_report = call.old
            /\ call.again =>
                 /\ call.ready = call.prev_ready
                 /\ me.bound = was.bound
                 /\ me.state = was.state

\* a call was rejected on a master that an earlier call had bound
C13_Witness ==
    /\ call.op = "accept_pseudo"
    /\ ~call.ready
    /\ call.before.bound
    /\ masters[call.idx].bound
    /\ masters[call.idx].state = "accepted"

\* C14: a key of the persisted report keeps its value through every step of
\* every challenge_pseudo run: the persisted report only grows, and a
\* training whose report has a key that is already persisted ends in an
\* error.
C14_PersistedKeysKept ==
    /\ [][\A k \in DOMAIN pseudo_report :
            k \in DOMAIN pseudo_report' /\ pseudo_report'[k] = pseudo_report[k]]_vars
    /\ []((/\ call.op = "start_training"
           /\ call.isok
           /\ DOMAIN call.old \cap DOMAIN call.report # {}) =>
             (exc # "none" /\ pc = "raised" /\ pseudo_report = call.old))

\* the second run trained level 0 again, on the report the first run had
\* persisted, and ended in an error with that report kept
C14_Witness ==
    /\ runs = 2
    /\ call.op = "start_training"
    /\ call.isok
    /\ "hints" \in DOMAIN call.old
    /\ call.old["hints"] # OldFragment
    /\ "hints" \in DOMAIN call.report
    /\ exc # "none"
    /\ pseudo_report = call.old

\* make_report of HintsMaster was called on results that have "low",
\* "normal" and "high", and returned a true verdict and a report of the one
\* key "hints" whose fragment maps exactly these three keys to their
\* sub-results
HintsReportBuilt ==
    (/\ call.op = "make_report"
     /\ call.name = "HintsMaster"
     /\ HintsKeySet \subseteq DOMAIN call.results) =>
        /\ call.out.exc = "none"
        /\ call.out.isok
        /\ DOMAIN call.out.report = {"hints"}
        /\ DOMAIN call.out.report["hints"] = HintsKeySet
        /\ \A k \in HintsKeySet : call.out.report["hints"][k] = call.results[k]
        /\ rep = Some([report |-> call.out.report, isok |-> TRUE])

\* C15 as stated: on results that have "low", "normal" and "high",
\* HintsMaster.make_report returns a true verdict and the report
\* {"hints": {low, normal, high}}, and start_training persists that report.
C15_HintsReportPersisted ==
    /\ HintsReportBuilt
    /\ (call.op = "start_training" /\ "hints" \in DOMAIN call.report) =>
         (call.isok /\ ReportPersisted)

\* C15 amended: make_report as stated; start_training persists the report
\* when the persisted report has no "hints" key yet, and otherwise raises
\* and leaves the persisted report unchanged.
C15_HintsReportPersistedUnlessPresent ==
    /\ HintsReportBuilt
    /\ (call.op = "start_training" /\ "hints" \in DOMAIN call.report) =>
         /\ call.isok
         /\ DOMAIN call.report = {"hints"}
         /\ DOMAIN call.report["hints"] = HintsKeySet
         /\ \A k \in HintsKeySet : call.report["hints"][k] = call.results[k]
         /\ "hints" \notin DOMAIN call.old => (ReportPersisted /\ exc = "none")
         /\ "hints" \in DOMAIN call.old =>
              (pc = "raised" /\ ~call.written /\ pseudo_report = call.old)

\* results with a fourth key gave a fragment of three keys, now persisted
C15_Witness ==
    /\ call.op = "start_training"
    /\ "hints" \in DOMAIN call.report
    /\ "other" \in DOMAIN call.results
    /\ "hints" \notin DOMAIN call.old
    /\ ReportPersisted
    /\ DOMAIN pseudo_report["hints"] = HintsKeySet

\* C16: when DeltaFactorMaster has accepted a pseudo of level 0, its
\* training comes to an end in the trained state, with the key
\* "delta_factor" in the persisted report.
C16_DeltaFactorTrains ==
    \A j \in DOMAIN masters :
        (/\ masters[j].cls.name = "DeltaFactorMaster"
         /\ masters[j].seen = Some(0)
         /\ masters[j].nTrain = 1
         /\ masters[j].state \in {"trained", "failed"}) =>
            /\ masters[j].state = "trained"
            /\ exc = "none"
            /\ "delta_factor" \in DOMAIN pseudo_report

\* C17: each level writes report.json and dojo_results.json inside its own
\* directory LEVEL_<n> of the working directory.
C17_ArtifactsInLevelDir ==
    /\ call.op = "json_pretty_dump" =>
         call.path = LevelDir(call.dojo_level) \o "/report.json"
    /\ (call.op = "challenge" /\ call.phase = 3) =>
         DojoResultsJson(masters[idx].cls.dojo_level) \in DOMAIN files

\* the second scan, built from the ecut of "low" and of "high" that the
\* first work returned, is the integers from max(low - 10, 5) up to but
\* excluding high + 10, in ascending order at stride 1; it is not empty, has
\* no cutoff below 5, and holds high, and low when low >= 5
ScanAsClaimed ==
    LET first == IF call.low - 10 > 5 THEN call.low - 10 ELSE 5
        scan == {erange[i] : i \in DOMAIN erange}
    IN  /\ scan = first .. (call.high + 9)
        /\ erange # <<>>
        /\ erange[1] = first
        /\ \A i \in DOMAIN erange : i > 1 => erange[i] = erange[i - 1] + 1
        /\ \A e \in scan : e >= 5
        /\ call.high \in scan
        /\ call.low >= 5 => call.low \in scan

\* the second work is built only once the first has been started, waited
\* for and read
ScanAfterPhase1 ==
    /\ pc = "wait1" => erange = <<>>
    /\ erange # <<>> => (pc = "wait2" /\ masters[idx].nTrain = 1)
    /\ pc = "wait2" => (call.op = "challenge" /\ call.phase = 2)

\* C18 as stated: for all integer results of the first work with
\* low <= high, the second scan is as described above.
C18_Phase2ScanForAll ==
    /\ (call.op = "challenge" /\ call.phase = 2 /\ call.low <= call.high) =>
         ScanAsClaimed
    /\ ScanAfterPhase1

\* C18 amended: the same for all integer results with low <= high and
\* high >= 5.
C18_Phase2ScanFromHighAtLeast5 ==
    /\ (/\ call.op = "challenge"
        /\ call.phase = 2
        /\ call.low <= call.high
        /\ call.high >= 5) => ScanAsClaimed
    /\ ScanAfterPhase1

\* low below 5 and high above: the scan starts at the least cutoff, 5
C18_Witness ==
    /\ call.op = "challenge"
    /\ call.phase = 2
    /\ call.low = 3
    /\ call.high = 25
    /\ erange[1] = 5
    /\ Len(erange) = 30
    /\ pc = "wait2"

\* the masters on which accept_pseudo has been called in the run
Visited == {j \in DOMAIN masters : masters[j].nAccept >= 1}
\* every one of them saw the pseudo at the same level
LevelKept == \A i, j \in Visited : masters[i].seen = masters[j].seen

\* C19: with distinct levels, in a run in which the level of the pseudo is
\* the same at every call of accept_pseudo, at most one master accepts and
\* trains the pseudo: the one whose level is the pseudo's level plus one
\* (level 0 for a pseudo without level). A second master accepts in the
\* same run only when the level has been changed in between.
C19_OneLevelPerRun ==
    (DistinctLevels(master_classes) /\ LevelKept) =>
        /\ Cardinality({j \in DOMAIN masters : masters[j].bound}) <= 1
        /\ Cardinality({j \in DOMAIN masters : masters[j].nTrain >= 1}) <= 1
        /\ \A j \in DOMAIN masters :
             (masters[j].bound \/ masters[j].nTrain >= 1) =>
                masters[j].cls.dojo_level =
                   IF masters[j].seen = None THEN 0 ELSE masters[j].seen[1] + 1

\* the second run, after level 0 was trained in the first run and the level
\* was advanced to 0: the master of level 1 accepts, and no other
C19_Witness ==
    /\ runs = 2
    /\ DistinctLevels(master_classes)
    /\ Len(masters) >= 2
    /\ Visited = {1, 2}
    /\ LevelKept
    /\ masters[2].seen = Some(0)
    /\ masters[2].bound
    /\ ~masters[1].bound
    /\ "hints" \in DOMAIN pseudo_report
    /\ pseudo_report["hints"] # OldFragment

\* challenge_pseudo has been called and has neither returned nor raised
InRun == pc \in {"accept", "challenge", "wait1", "wait2", "make_report",
                "dump", "verdict"}
\* the thread is inside a w.wait()
AtWait == pc \in {"wait1", "wait2"}

\* C20: when every w.wait() returns, every run of challenge_pseudo ends, by
\* returning the masters or by raising; in a run accept_pseudo and challenge
\* are called at most once on each master; and outside w.wait() the thread
\* of a run always has a step, so that a run can stay only in a w.wait().
C20_RunEnds ==
    /\ InRun ~> (pc \in {"returned", "raised"})
    /\ [](\A j \in DOMAIN masters :
             masters[j].nAccept <= 1 /\ masters[j].nTrain <= 1)
    /\ [](call.op = "return" =>
             /\ Len(masters) = Len(master_classes)
             /\ \A j \in DOMAIN masters : masters[j].nAccept = 1)
    /\ []((InRun /\ ~AtWait) => ENABLED <<ThreadStep>>_vars)
    /\ [](AtWait => ~ENABLED <<ThreadStep>>_vars)

\* a run has returned its masters after the master of the hints has gone
\* through both w.wait() and trained the pseudo
C20_Witness ==
    /\ pc = "returned"
    /\ Len(masters) >= 2
    /\ \E j \in DOMAIN masters :
         /\ masters[j].cls.name = "HintsMaster"
         /\ masters[j].state = "trained"
         /\ masters[j].nTrain = 1
    /\ \A j \in DOMAIN masters : masters[j].nAccept = 1

====
